---- MODULE Spec2Model ----
(***************************************************************************)
(* Model of the sphinxcontrib-jupyter translators:                         *)
(*   JupyterCodeTranslator  (writers/translate_code.py)                    *)
(*   JupyterTranslator      (writers/translate_all.py)                     *)
(* One action per visit_/depart_ handler.  The docutils traversal engine   *)
(* (walkabout) is modelled by the stack `open` of entered nodes: a step    *)
(* either enters a child of the innermost open node or leaves that node.   *)
(*                                                                         *)
(* A Python string is a sequence of one-character strings; the markup      *)
(* pieces whose inner text does not matter (a fence, an anchor) are one     *)
(* token.                                                                  *)
(* A Python Optional is a sequence of length 0 (None) or 1.                *)
(***************************************************************************)
EXTENDS Integers, Sequences, FiniteSets, TLC

\* ------------------------------------------------------------------------
\*  Bounds of the explored input documents
\* ------------------------------------------------------------------------
\* number of nodes below the document node, full node-kind set
MaxNodes == 3
\* number of nodes below the document node, list documents
MaxListNodes == 6
\* number of nodes below the document node, code-block documents
MaxCodeNodes == 5
\* number of nodes below the document node, documents of references
MaxRefNodes == 5
\* number of nodes below the document node, documents of links
MaxLinkNodes == 3
\* number of nodes below the document node, documents of blocks of lines
MaxStripNodes == 6
\* length of the refuri attribute of a reference node
MaxUriLen == 3

\* ------------------------------------------------------------------------
\*  Strings
\* ------------------------------------------------------------------------
NL == "\n"
SP == " "
Whitespace == {SP, NL}

None == <<>>
Some(x) == <<x>>

RECURSIVE Join(_)
\* "".join(fragments)
Join(frags) ==
    IF frags = <<>> THEN <<>> ELSE Head(frags) \o Join(Tail(frags))

\* str.strip() of a line leaves nothing
IsBlank(s) == \A i \in 1..Len(s) : s[i] \in Whitespace

RECURSIVE Split(_, _)
\* s.split("\n"), cur is the line being collected
Split(s, cur) ==
    IF s = <<>> THEN <<cur>>
    ELSE IF Head(s) = NL THEN <<cur>> \o Split(Tail(s), <<>>)
    ELSE Split(Tail(s), Append(cur, Head(s)))

RECURSIVE JoinLines(_)
\* "\n".join(lines)
JoinLines(lines) ==
    IF lines = <<>> THEN <<>>
    ELSE IF Len(lines) = 1 THEN lines[1]
    ELSE lines[1] \o <<NL>> \o JoinLines(Tail(lines))

RECURSIVE StripLoop(_, _)
\* the for loop of strip_blank_lines_in_end_of_block: n iterations left
StripLoop(lines, n) ==
    IF n = 0 THEN lines
    ELSE IF IsBlank(lines[Len(lines)])
         THEN StripLoop(SubSeq(lines, 1, Len(lines) - 1), n - 1)
         ELSE lines

\* variant: the loop runs once
strip_only_last(line_text) ==
    LET lines == Split(line_text, <<>>)
    IN  JoinLines(StripLoop(lines, 1))

strip_blank_lines_in_end_of_block(line_text) ==
    LET lines == Split(line_text, <<>>)
    IN  JoinLines(StripLoop(lines, Len(lines)))

RECURSIVE Replace(_, _)
\* s.replace("\n", "\n" + indent)
Replace(s, indent) ==
    IF s = <<>> THEN <<>>
    ELSE IF Head(s) = NL THEN <<NL>> \o indent \o Replace(Tail(s), indent)
    ELSE <<Head(s)>> \o Replace(Tail(s), indent)

RECURSIVE Repeat(_, _)
\* c * n
Repeat(c, n) == IF n <= 0 THEN <<>> ELSE <<c>> \o Repeat(c, n - 1)

\* list.insert(i, x) with a 0-based index, clamped to the end as Python does
Insert(s, i, x) ==
    LET k == IF i > Len(s) THEN Len(s) ELSE i
    IN  SubSeq(s, 1, k) \o <<x>> \o SubSeq(s, k + 1, Len(s))

Last(s) == s[Len(s)]
Front(s) == SubSeq(s, 1, Len(s) - 1)


\* ------------------------------------------------------------------------
\*  Notebook cells (nbformat.v4) and the collaborators of utils.py
\* ------------------------------------------------------------------------
\* a markdown cell has no outputs in nbformat; the field is kept empty here
new_markdown_cell(src) ==
    [cell_type |-> "markdown", source |-> src, outputs |-> <<>>]

new_code_cell(src) ==
    [cell_type |-> "code", source |-> src, outputs |-> <<>>]

new_output(text) == [output_type |-> "stream", text |-> text]

\* a str attribute that is None
NoStr == "None"

\* LanguageTranslator.translate: table lookup, identity outside the table
translate(language) == IF language = "python" THEN "python3" ELSE language

\* the declared classes a literal block can carry
ClassSets == {{}, {"output"}, {"no-execute"}}

\* JupyterOutputCellGenerators.GetGeneratorFromClasses
GetGeneratorFromClasses(classes) ==
    IF "output" \in classes THEN "CODE_OUTPUT"
    ELSE IF "no-execute" \in classes THEN "MARKDOWN"
    ELSE "CODE"

\* the three-backquote fence line, one token
FENCE == "FENCE"

\* JupyterOutputCellGenerators.Generate
Generate(cell_type, formatted_text) ==
    CASE cell_type = "CODE" -> new_code_cell(formatted_text)
      [] cell_type = "CODE_OUTPUT" -> new_output(formatted_text)
      [] cell_type = "MARKDOWN" ->
            new_markdown_cell(<<FENCE, NL>> \o formatted_text \o <<NL, FENCE>>)

\* ------------------------------------------------------------------------
\*  Configuration (conf.py) and input alphabet
\* ------------------------------------------------------------------------
default_lang == "python3"

\* builder.config["jupyter_kernels"]: None or a table language -> record
KernelTables ==
    { None,
      Some([python3 |-> [kernelspec |-> "ks_python3"],
            julia   |-> [kernelspec |-> "ks_julia"]]),
      Some([julia   |-> [kernelspec |-> "ks_julia"]]),
      Some([python3 |-> [file_extension |-> ".py"],
            julia   |-> [kernelspec |-> "ks_julia"]]) }

H1 == new_code_cell(<<"h1">>)
H2 == new_code_cell(<<"h2">>)

\* builder.config["jupyter_headers"] once __init__ has applied
\* jupyter_python_autosave: None, or a table language -> header cells
HeaderTables ==
    { None,
      Some([python3 |-> <<H1, H2>>]),
      Some([python3 |-> <<>>]) }

\* content of the welcome block file, and of the metadata cell
WelcomeText == <<"w", NL>>
MetaText == <<"m">>

WelcomeCell == new_markdown_cell(strip_blank_lines_in_end_of_block(WelcomeText))
MetadataCell == new_markdown_cell(MetaText)

\* texts of Text nodes
Texts == { <<"a">>, <<"b", NL, "c">>, <<NL>> }

\* language attribute of a literal block (NoStr: the node has none)
NodeLanguages == { NoStr, "python", "julia" }

\* lang attribute of a highlightlang node
HighlightLanguages == { "julia", "ruby" }

\* ------------------------------------------------------------------------
\*  State
\* ------------------------------------------------------------------------
VARIABLES
    \* configuration held by the translator
    jupyter_kernels, jupyter_headers, jupyter_write_metadata, welcome_block,
    \* the traversal engine: position, entered nodes, nodes still to come
    pc, open, budget,
    \* JupyterCodeTranslator
    lang, nodelang, output_cell_type, in_code_block, code_lines,
    cells, kernelspec, warnings,
    \* JupyterTranslator
    markdown_lines, indents, bullets, list_item_starts,
    section_level, in_topic, list_level,
    reference_text_start, in_reference,
    \* calls of the reporter's error() so far
    errors,
    \* observation: last handler run, calls of add_markdown_cell so far,
    \* every fragment appended to a buffer so far, whether a highlightlang
    \* node was visited so far
    handler, flush_calls, appended, declared

cfgVars == <<jupyter_kernels, jupyter_headers, jupyter_write_metadata,
             welcome_block>>
codeVars == <<lang, nodelang, output_cell_type, in_code_block, code_lines,
              kernelspec, warnings>>
listVars == <<indents, bullets, list_item_starts, list_level>>
sectVars == <<section_level, in_topic>>
refVars == <<reference_text_start, in_reference, errors>>
vars == <<jupyter_kernels, jupyter_headers, jupyter_write_metadata,
          welcome_block, pc, open, budget,
          lang, nodelang, output_cell_type, in_code_block, code_lines,
          cells, kernelspec, warnings,
          markdown_lines, indents, bullets, list_item_starts,
          section_level, in_topic, list_level,
          reference_text_start, in_reference, errors,
          handler, flush_calls, appended, declared>>

\* JupyterCodeTranslator.__init__ and JupyterTranslator.__init__
Construct(kernels, headers, write_metadata, welcome, nodes) ==
    /\ jupyter_kernels = kernels
    /\ jupyter_headers = headers
    /\ jupyter_write_metadata = write_metadata
    /\ welcome_block = welcome
    /\ pc = "init"
    /\ open = <<>>
    /\ budget = nodes
    /\ lang = NoStr
    /\ nodelang = NoStr
    /\ output_cell_type = NoStr
    /\ in_code_block = FALSE
    /\ code_lines = <<>>
    /\ cells = (IF welcome THEN <<WelcomeCell>> ELSE <<>>)
               \o (IF write_metadata THEN <<MetadataCell>> ELSE <<>>)
    /\ kernelspec = NoStr
    /\ warnings = 0
    /\ markdown_lines = <<>>
    /\ indents = <<>>
    /\ bullets = <<>>
    /\ list_item_starts = <<>>
    /\ section_level = 0
    /\ in_topic = FALSE
    /\ list_level = 0
    /\ reference_text_start = 0
    /\ in_reference = FALSE
    /\ errors = 0
    /\ handler = "__init__"
    /\ flush_calls = 0
    /\ appended = <<>>
    /\ declared = FALSE

Init ==
    \E k \in KernelTables, h \in HeaderTables, m \in BOOLEAN, w \in BOOLEAN :
        Construct(k, h, m, w, MaxNodes)


\* ------------------------------------------------------------------------
\*  The traversal engine (docutils walkabout): visit a node, its children,
\*  then depart it.  Children(k): the node kinds that occur below a node of
\*  kind k.  Text reaches a list item through wrapper nodes the translator
\*  has no handler for (default_visit / default_departure do nothing).
\* ------------------------------------------------------------------------
Body == {"paragraph", "bullet_list", "enumerated_list", "literal_block",
         "target"}

Children(k) ==
    CASE k = "document" -> Body \cup {"section", "title", "topic",
                                      "highlightlang"}
      [] k = "section" -> Body \cup {"section", "title", "topic",
                                     "highlightlang"}
      [] k = "topic" -> {"title", "paragraph", "bullet_list",
                         "enumerated_list"}
      [] k = "title" -> {"Text"}
      [] k = "paragraph" -> {"Text", "target", "reference"}
      [] k = "reference" -> {"Text"}
      [] k = "bullet_list" -> {"list_item"}
      [] k = "enumerated_list" -> {"list_item"}
      [] k = "list_item" -> Body \cup {"Text"}
      [] k = "literal_block" -> {"Text"}
      [] OTHER -> {}

\* enter a node that has children
Enter(k) ==
    /\ pc = "walk"
    /\ budget > 0
    /\ k \in Children(Last(open))
    /\ open' = Append(open, k)
    /\ budget' = budget - 1
    /\ pc' = pc

\* visit a node without children (its depart handler does nothing)
Leaf(k) ==
    /\ pc = "walk"
    /\ budget > 0
    /\ k \in Children(Last(open))
    /\ open' = open
    /\ budget' = budget - 1

\* leave the innermost open node
Leave(k) ==
    /\ pc = "walk"
    /\ open # <<>>
    /\ Last(open) = k
    /\ open' = Front(open)
    /\ budget' = budget
    /\ pc' = pc

\* an exception leaves the handler: the traversal stops where it is
Raise ==
    /\ pc' = "aborted"
    /\ open' = open
    /\ budget' = budget

\* a fragment as recorded in `appended`
Fragment(buffer, text) ==
    [buffer |-> buffer, text |-> text, discarded |-> FALSE]

\* ------------------------------------------------------------------------
\*  Settings of JupyterTranslator.__init__
\* ------------------------------------------------------------------------
sep_lines == <<SP, SP, NL>>
sep_paras == <<NL, NL>>
indent_char == SP
default_ext == <<".", "ipynb">>

\* ------------------------------------------------------------------------
\*  general methods
\* ------------------------------------------------------------------------
\* variant: the buffer is not reset after the cell is appended
add_markdown_cell_keep_buffer(md, cs) ==
    LET line_text == Join(md)
        formatted_line_text == strip_blank_lines_in_end_of_block(line_text)
    IN  IF ~IsBlank(formatted_line_text)
        THEN [cells |-> Append(cs, new_markdown_cell(formatted_line_text)),
              markdown_lines |-> md]
        ELSE [cells |-> cs, markdown_lines |-> md]

\* variant: the test for a non-empty text is missing
add_markdown_cell_always(md, cs) ==
    LET line_text == Join(md)
        formatted_line_text == strip_blank_lines_in_end_of_block(line_text)
    IN  [cells |-> Append(cs, new_markdown_cell(formatted_line_text)),
         markdown_lines |-> <<>>]

\* add_markdown_cell: the cell stream and the buffer it leaves behind
add_markdown_cell(md, cs) ==
    LET line_text == Join(md)
        formatted_line_text == strip_blank_lines_in_end_of_block(line_text)
    IN  IF ~IsBlank(formatted_line_text)
        THEN [cells |-> Append(cs, new_markdown_cell(formatted_line_text)),
              markdown_lines |-> <<>>]
        ELSE [cells |-> cs, markdown_lines |-> md]

\* ------------------------------------------------------------------------
\*  Sections
\* ------------------------------------------------------------------------
visit_document ==
    /\ pc = "init"
    /\ pc' = "walk"
    /\ open' = <<"document">>
    /\ lang' = default_lang
    /\ handler' = "visit_document"
    /\ UNCHANGED <<cfgVars, refVars, declared, budget, nodelang, output_cell_type, in_code_block,
                   code_lines, cells, kernelspec, warnings, markdown_lines,
                   listVars, sectVars, flush_calls, appended>>

Reverse(s) == [i \in 1..Len(s) |-> s[Len(s) + 1 - i]]

RECURSIVE InsertAll(_, _, _)
\* for h in hs: cs.insert(pos, h)
InsertAll(cs, hs, pos) ==
    IF hs = <<>> THEN cs
    ELSE InsertAll(Insert(cs, pos, Head(hs)), Tail(hs), pos)

\* variant: the header cells are appended at the end of the stream
insert_headers_at_end(cs, lng) ==
    IF jupyter_headers # None /\ lng \in DOMAIN jupyter_headers[1]
    THEN cs \o jupyter_headers[1][lng]
    ELSE cs

\* the header part of JupyterCodeTranslator.depart_document
insert_headers(cs, lng) ==
    IF jupyter_headers # None /\ lng \in DOMAIN jupyter_headers[1]
    THEN InsertAll(cs, Reverse(jupyter_headers[1][lng]),
                   IF jupyter_write_metadata THEN 1 ELSE 0)
    ELSE cs

\* outcome of the kernel part of JupyterCodeTranslator.depart_document
kernel_outcome(lng) ==
    IF jupyter_kernels = None THEN "skip"
    ELSE IF lng \notin DOMAIN jupyter_kernels[1] THEN "KeyError"
    ELSE IF "kernelspec" \in DOMAIN jupyter_kernels[1][lng] THEN "write"
    ELSE "warn"

depart_document ==
    LET flush == add_markdown_cell(markdown_lines, cells)
        unset == (lang = NoStr)
        lng == IF unset THEN default_lang ELSE lang
        headerWarn == jupyter_headers # None
                      /\ lng \notin DOMAIN jupyter_headers[1]
        outcome == kernel_outcome(lng)
    IN  /\ pc = "walk"
        /\ open = <<"document">>
        /\ handler' = "depart_document"
        /\ flush_calls' = flush_calls + 1
        /\ markdown_lines' = flush.markdown_lines
        /\ lang' = lng
        /\ cells' = insert_headers(flush.cells, lng)
        /\ kernelspec' = IF outcome = "write"
                         THEN jupyter_kernels[1][lng].kernelspec
                         ELSE kernelspec
        /\ warnings' = warnings + (IF unset THEN 1 ELSE 0)
                                + (IF headerWarn THEN 1 ELSE 0)
                                + (IF outcome = "warn" THEN 1 ELSE 0)
        /\ IF outcome = "KeyError"
           THEN Raise
           ELSE pc' = "done" /\ open' = <<>> /\ budget' = budget
        /\ UNCHANGED <<cfgVars, refVars, declared, nodelang, output_cell_type, in_code_block,
                       code_lines, listVars, sectVars, appended>>

visit_topic ==
    /\ Enter("topic")
    /\ in_topic' = TRUE
    /\ handler' = "visit_topic"
    /\ UNCHANGED <<cfgVars, refVars, declared, codeVars, cells, markdown_lines, listVars,
                   section_level, flush_calls, appended>>

depart_topic ==
    /\ Leave("topic")
    /\ in_topic' = FALSE
    /\ handler' = "depart_topic"
    /\ UNCHANGED <<cfgVars, refVars, declared, codeVars, cells, markdown_lines, listVars,
                   section_level, flush_calls, appended>>

visit_section ==
    /\ Enter("section")
    /\ section_level' = section_level + 1
    /\ handler' = "visit_section"
    /\ UNCHANGED <<cfgVars, refVars, declared, codeVars, cells, markdown_lines, listVars,
                   in_topic, flush_calls, appended>>

depart_section ==
    /\ Leave("section")
    /\ section_level' = section_level - 1
    /\ handler' = "depart_section"
    /\ UNCHANGED <<cfgVars, refVars, declared, codeVars, cells, markdown_lines, listVars,
                   in_topic, flush_calls, appended>>

\* variant: an unknown tag warns but leaves the language as it was
visit_highlightlang_keep(tag) ==
    /\ Leaf("highlightlang")
    /\ declared' = TRUE
    /\ handler' = "visit_highlightlang"
    /\ IF jupyter_kernels = None
       THEN /\ pc' = "aborted"
            /\ UNCHANGED <<lang, warnings>>
       ELSE /\ pc' = pc
            /\ IF tag \in DOMAIN jupyter_kernels[1]
               THEN lang' = tag /\ warnings' = warnings
               ELSE lang' = lang /\ warnings' = warnings + 1
    /\ UNCHANGED <<cfgVars, refVars, nodelang, output_cell_type, in_code_block,
                   code_lines, cells, kernelspec, markdown_lines, listVars,
                   sectVars, flush_calls, appended>>

visit_highlightlang(tag) ==
    /\ Leaf("highlightlang")
    /\ declared' = TRUE
    /\ handler' = "visit_highlightlang"
    /\ IF jupyter_kernels = None
       THEN \* `lang in None` is a TypeError
            /\ pc' = "aborted"
            /\ UNCHANGED <<lang, warnings>>
       ELSE /\ pc' = pc
            /\ IF tag \in DOMAIN jupyter_kernels[1]
               THEN lang' = tag /\ warnings' = warnings
               ELSE lang' = default_lang /\ warnings' = warnings + 1
    /\ UNCHANGED <<cfgVars, refVars, nodelang, output_cell_type, in_code_block,
                   code_lines, cells, kernelspec, markdown_lines, listVars,
                   sectVars, flush_calls, appended>>

\* ------------------------------------------------------------------------
\*  Inline elements
\* ------------------------------------------------------------------------
\* variant: the text goes to both buffers
visit_Text_both(text) ==
    /\ Leaf("Text")
    /\ pc' = pc
    /\ handler' = "visit_Text"
    /\ code_lines' = Append(code_lines, text)
    /\ markdown_lines' = Append(markdown_lines, text)
    /\ appended' = Append(appended, Fragment("code", text))
    /\ UNCHANGED <<cfgVars, refVars, declared, lang, nodelang,
                   output_cell_type, in_code_block, cells, kernelspec,
                   warnings, listVars, sectVars, flush_calls>>

visit_Text(text) ==
    /\ Leaf("Text")
    /\ pc' = pc
    /\ handler' = "visit_Text"
    /\ IF in_code_block
       THEN /\ code_lines' = Append(code_lines, text)
            /\ markdown_lines' = markdown_lines
            /\ appended' = Append(appended, Fragment("code", text))
       ELSE /\ markdown_lines' = Append(markdown_lines, text)
            /\ code_lines' = code_lines
            /\ appended' = Append(appended, Fragment("markdown", text))
    /\ UNCHANGED <<cfgVars, refVars, declared, lang, nodelang, output_cell_type, in_code_block,
                   cells, kernelspec, warnings, listVars, sectVars,
                   flush_calls>>

RECURSIVE lstrip(_)
\* str.lstrip()
lstrip(s) ==
    IF s # <<>> /\ Head(s) \in Whitespace THEN lstrip(Tail(s)) ELSE s

RECURSIVE rstrip(_)
\* str.rstrip()
rstrip(s) ==
    IF s # <<>> /\ Last(s) \in Whitespace THEN rstrip(Front(s)) ELSE s

\* variant: only the leading whitespace is removed
strip_left_only(s) == lstrip(s)

\* str.strip()
strip(s) == rstrip(lstrip(s))

URI_SPACE_REPLACE_TO == "-"

\* re.sub(URI_SPACE_REPLACE_FROM, URI_SPACE_REPLACE_TO, s), the pattern
\* being one whitespace character
URI_SPACE_REPLACE(s) ==
    [i \in 1..Len(s) |->
        IF s[i] \in Whitespace THEN URI_SPACE_REPLACE_TO ELSE s[i]]

RECURSIVE NoHashPrefix(_)
\* the match of ([^\#]*) at the start of uri
NoHashPrefix(uri) ==
    IF uri = <<>> \/ Head(uri) = "#" THEN <<>>
    ELSE <<Head(uri)>> \o NoHashPrefix(Tail(uri))

\* JupyterTranslator.split_uri_id: the groups of ([^\#]*)\#?(.*)
split_uri_id(uri) ==
    LET g1 == NoHashPrefix(uri)
        rest == SubSeq(uri, Len(g1) + 1, Len(uri))
    IN  <<g1, IF rest # <<>> THEN Tail(rest) ELSE <<>>>>

add_extension_to_inline_link(uri, ext) ==
    IF \A i \in 1..Len(uri) : uri[i] # "."
    THEN LET groups == split_uri_id(uri)
         IN  groups[1] \o ext \o <<"#">> \o groups[2]
    ELSE uri

\* refid attribute of a reference node
REFID == <<"i", "d">>

visit_reference ==
    /\ Enter("reference")
    /\ handler' = "visit_reference"
    /\ in_reference' = TRUE
    /\ markdown_lines' = Append(markdown_lines, <<"[">>)
    /\ reference_text_start' = Len(markdown_lines')
    /\ appended' = Append(appended, Fragment("markdown", <<"[">>))
    /\ UNCHANGED <<cfgVars, declared, errors, codeVars, cells, listVars,
                   sectVars, flush_calls>>

\* refuri, refid: the attribute or None; internal: the attribute is present
\* and True
depart_reference(refuri, internal, refid) ==
    LET uri_text == URI_SPACE_REPLACE(strip(Join(
                        SubSeq(markdown_lines, reference_text_start + 1,
                               Len(markdown_lines)))))
        invalid == ~in_topic /\ refuri = None /\ refid = None
        link == IF refuri # None
                THEN IF internal
                     THEN add_extension_to_inline_link(refuri[1], default_ext)
                     ELSE refuri[1]
                ELSE IF refid # None THEN <<"#">> \o refid[1]
                ELSE <<>>
        formatted_text == IF in_topic
                          THEN <<"]", "(", "#">> \o uri_text \o <<")">>
                          ELSE <<"]", "(">> \o link \o <<")">>
    IN  /\ Leave("reference")
        /\ handler' = "depart_reference"
        /\ markdown_lines' = Append(markdown_lines, formatted_text)
        /\ appended' = Append(appended, Fragment("markdown", formatted_text))
        /\ errors' = IF invalid THEN errors + 1 ELSE errors
        /\ in_reference' = FALSE
        /\ UNCHANGED <<cfgVars, declared, reference_text_start, codeVars,
                       cells, listVars, sectVars, flush_calls>>

\* the anchor "<a id='...'></a>", one token
ANCHOR == "<a>"

visit_target(has_refid) ==
    /\ Leaf("target")
    /\ pc' = pc
    /\ handler' = "visit_target"
    /\ IF has_refid
       THEN /\ markdown_lines' = Append(markdown_lines, <<NL, ANCHOR, NL>>)
            /\ appended' = Append(appended,
                                  Fragment("markdown", <<NL, ANCHOR, NL>>))
       ELSE UNCHANGED <<markdown_lines, appended>>
    /\ UNCHANGED <<cfgVars, refVars, declared, codeVars, cells, listVars, sectVars, flush_calls>>

\* ------------------------------------------------------------------------
\*  markdown cells
\* ------------------------------------------------------------------------
visit_paragraph ==
    /\ Enter("paragraph")
    /\ handler' = "visit_paragraph"
    /\ UNCHANGED <<cfgVars, refVars, declared, codeVars, cells, markdown_lines, listVars,
                   sectVars, flush_calls, appended>>

depart_paragraph ==
    LET sep == IF list_level > 0 THEN sep_lines ELSE sep_paras
    IN  /\ Leave("paragraph")
        /\ handler' = "depart_paragraph"
        /\ markdown_lines' = Append(markdown_lines, sep)
        /\ appended' = Append(appended, Fragment("markdown", sep))
        /\ UNCHANGED <<cfgVars, refVars, declared, codeVars, cells, listVars, sectVars,
                       flush_calls>>

visit_title ==
    LET flush == add_markdown_cell(markdown_lines, cells)
        level == IF in_topic THEN section_level + 1 ELSE section_level
        heading == Repeat("#", level) \o <<SP>>
    IN  /\ Enter("title")
        /\ handler' = "visit_title"
        /\ flush_calls' = flush_calls + 1
        /\ cells' = flush.cells
        /\ markdown_lines' = Append(flush.markdown_lines, heading)
        /\ appended' = Append(appended, Fragment("markdown", heading))
        /\ UNCHANGED <<cfgVars, refVars, declared, codeVars, listVars, sectVars>>

depart_title ==
    /\ Leave("title")
    /\ handler' = "depart_title"
    /\ markdown_lines' = Append(markdown_lines, sep_paras)
    /\ appended' = Append(appended, Fragment("markdown", sep_paras))
    /\ UNCHANGED <<cfgVars, refVars, declared, codeVars, cells, listVars, sectVars, flush_calls>>


\* ------------------------------------------------------------------------
\*  list items
\* ------------------------------------------------------------------------
visit_bullet_list ==
    /\ Enter("bullet_list")
    /\ handler' = "visit_bullet_list"
    /\ list_level' = list_level + 1
    /\ bullets' = Append(bullets, <<"-">>)
    /\ indents' = Append(indents, Len(<<"-">>) + 1)
    /\ UNCHANGED <<cfgVars, refVars, declared, codeVars, cells, markdown_lines, list_item_starts,
                   sectVars, flush_calls, appended>>

depart_bullet_list ==
    LET level == list_level - 1
        md == IF level = 0 THEN Append(markdown_lines, sep_paras)
              ELSE markdown_lines
        flushing == (level = 0 /\ in_topic)
        flush == add_markdown_cell(md, cells)
    IN  /\ Leave("bullet_list")
        /\ handler' = "depart_bullet_list"
        /\ list_level' = level
        /\ markdown_lines' = IF flushing THEN flush.markdown_lines ELSE md
        /\ cells' = IF flushing THEN flush.cells ELSE cells
        /\ flush_calls' = IF flushing THEN flush_calls + 1 ELSE flush_calls
        /\ appended' = IF level = 0
                       THEN Append(appended, Fragment("markdown", sep_paras))
                       ELSE appended
        /\ bullets' = Front(bullets)
        /\ indents' = Front(indents)
        /\ UNCHANGED <<cfgVars, refVars, declared, codeVars, list_item_starts, sectVars>>

visit_enumerated_list ==
    /\ Enter("enumerated_list")
    /\ handler' = "visit_enumerated_list"
    /\ list_level' = list_level + 1
    /\ bullets' = Append(bullets, <<"1", ".">>)
    /\ indents' = Append(indents, Len(<<"1", ".">>) + 1)
    /\ UNCHANGED <<cfgVars, refVars, declared, codeVars, cells, markdown_lines, list_item_starts,
                   sectVars, flush_calls, appended>>

\* variant: the enumerated list flushes inside a topic as the bulleted one
depart_enumerated_list_topic_flush ==
    LET level == list_level - 1
        md == IF level = 0 THEN Append(markdown_lines, sep_paras)
              ELSE markdown_lines
        flushing == (level = 0 /\ in_topic)
        flush == add_markdown_cell(md, cells)
    IN  /\ Leave("enumerated_list")
        /\ handler' = "depart_enumerated_list"
        /\ list_level' = level
        /\ markdown_lines' = IF flushing THEN flush.markdown_lines ELSE md
        /\ cells' = IF flushing THEN flush.cells ELSE cells
        /\ flush_calls' = IF flushing THEN flush_calls + 1 ELSE flush_calls
        /\ appended' = IF level = 0
                       THEN Append(appended, Fragment("markdown", sep_paras))
                       ELSE appended
        /\ bullets' = Front(bullets)
        /\ indents' = Front(indents)
        /\ UNCHANGED <<cfgVars, refVars, declared, codeVars, list_item_starts, sectVars>>

depart_enumerated_list ==
    LET level == list_level - 1
    IN  /\ Leave("enumerated_list")
        /\ handler' = "depart_enumerated_list"
        /\ list_level' = level
        /\ markdown_lines' = IF level = 0
                             THEN Append(markdown_lines, sep_paras)
                             ELSE markdown_lines
        /\ appended' = IF level = 0
                       THEN Append(appended, Fragment("markdown", sep_paras))
                       ELSE appended
        /\ bullets' = Front(bullets)
        /\ indents' = Front(indents)
        /\ UNCHANGED <<cfgVars, refVars, declared, codeVars, cells, list_item_starts, sectVars,
                       flush_calls>>

visit_list_item ==
    LET head == Last(bullets) \o <<SP>>
        md == Append(markdown_lines, head)
    IN  /\ Enter("list_item")
        /\ handler' = "visit_list_item"
        /\ markdown_lines' = md
        /\ list_item_starts' = Append(list_item_starts, Len(md))
        /\ appended' = Append(appended, Fragment("markdown", head))
        /\ UNCHANGED <<cfgVars, refVars, declared, codeVars, cells, indents, bullets, list_level,
                       sectVars, flush_calls>>

\* variant: the fixed four-space self.indent is used instead of the width
item_indent_fixed(w) == Repeat(indent_char, 4)

\* the indent string depart_list_item inserts at nesting width w
item_indent(w) == Repeat(indent_char, w)

\* the buffer depart_list_item leaves: md is the buffer (non-empty, last
\* fragment non-empty), start the popped mark (a 0-based index)
reindent(md, start, indent) ==
    LET n == Len(md)
        br_removed_flag == (Last(Last(md)) = NL)
        cut == IF br_removed_flag
               THEN [md EXCEPT ![n] = Front(md[n])]
               ELSE md
        done == [i \in 1..n |->
                    IF i > start THEN Replace(cut[i], indent) ELSE cut[i]]
    IN  IF br_removed_flag THEN Append(done, <<NL>>) ELSE done

depart_list_item ==
    LET list_item_start == Last(list_item_starts)
        indent == item_indent(Last(indents))
    IN  /\ pc = "walk"
        /\ open # <<>>
        /\ Last(open) = "list_item"
        /\ handler' = "depart_list_item"
        /\ list_item_starts' = Front(list_item_starts)
        /\ IF markdown_lines = <<>> \/ Last(markdown_lines) = <<>>
           THEN \* markdown_lines[-1][-1] is an IndexError
                /\ Raise
                /\ markdown_lines' = markdown_lines
           ELSE /\ Leave("list_item")
                /\ markdown_lines' =
                       reindent(markdown_lines, list_item_start, indent)
        /\ UNCHANGED <<cfgVars, refVars, declared, codeVars, cells, indents, bullets, list_level,
                       sectVars, flush_calls, appended>>

\* ------------------------------------------------------------------------
\*  code blocks
\* ------------------------------------------------------------------------
\* variant: the override spares a block that carries the output class
select_cell_type_keep_output(classes, resolved, lng) ==
    IF resolved # translate(lng)
       /\ GetGeneratorFromClasses(classes) # "CODE_OUTPUT"
    THEN "MARKDOWN"
    ELSE GetGeneratorFromClasses(classes)

\* the strategy JupyterCodeTranslator.visit_literal_block selects
select_cell_type(classes, resolved, lng) ==
    IF resolved # translate(lng)
    THEN "MARKDOWN"
    ELSE GetGeneratorFromClasses(classes)

visit_literal_block(language, classes) ==
    LET resolved == translate(IF language # NoStr THEN language ELSE lang)
        flush == add_markdown_cell(markdown_lines, cells)
    IN  /\ Enter("literal_block")
        /\ handler' = "visit_literal_block"
        /\ output_cell_type' = select_cell_type(classes, resolved, lang)
        /\ nodelang' = resolved
        /\ in_code_block' = TRUE
        /\ code_lines' = <<>>
        \* JupyterTranslator: `if self.in_code_block: self.add_markdown_cell()`
        /\ flush_calls' = flush_calls + 1
        /\ cells' = flush.cells
        /\ markdown_lines' = flush.markdown_lines
        /\ UNCHANGED <<cfgVars, refVars, declared, lang, kernelspec, warnings, listVars, sectVars,
                       appended>>

\* variant: the check for an output already attached is missing
output_outcome_no_multiple(cs) ==
    IF cs = <<>> THEN "IndexError"
    ELSE IF Last(cs).cell_type # "code" THEN "not_code"
    ELSE "attach"

\* what depart_literal_block does with an output record, given the stream
output_outcome(cs) ==
    IF cs = <<>> THEN "IndexError"
    ELSE IF Last(cs).cell_type # "code" THEN "not_code"
    ELSE IF Last(cs).outputs # <<>> THEN "multiple"
    ELSE "attach"

\* the last n fragments of the record were thrown away
Discard(frs, n) ==
    [i \in 1..Len(frs) |->
        IF i > Len(frs) - n THEN [frs[i] EXCEPT !.discarded = TRUE]
        ELSE frs[i]]

depart_literal_block ==
    LET line_text == Join(code_lines)
        formatted_line_text == strip_blank_lines_in_end_of_block(line_text)
        new_code_cell_ == Generate(output_cell_type, formatted_line_text)
        outcome == IF output_cell_type = "CODE_OUTPUT"
                   THEN output_outcome(cells)
                   ELSE "append"
    IN  /\ pc = "walk"
        /\ open # <<>>
        /\ Last(open) = "literal_block"
        /\ handler' = "depart_literal_block"
        /\ IF outcome = "IndexError"
           THEN \* self.output["cells"][-1] on an empty list
                /\ Raise
                /\ UNCHANGED <<in_code_block, cells, warnings, appended>>
           ELSE /\ Leave("literal_block")
                /\ in_code_block' = FALSE
                /\ cells' =
                     CASE outcome = "append" -> Append(cells, new_code_cell_)
                       [] outcome = "attach" ->
                            [cells EXCEPT ![Len(cells)].outputs =
                                              Append(@, new_code_cell_)]
                       [] OTHER -> cells
                /\ warnings' = IF outcome \in {"not_code", "multiple"}
                               THEN warnings + 1
                               ELSE warnings
                /\ appended' = IF outcome \in {"not_code", "multiple"}
                               THEN Discard(appended, Len(code_lines))
                               ELSE appended
        /\ UNCHANGED <<cfgVars, refVars, declared, lang, nodelang, output_cell_type, code_lines,
                       kernelspec, markdown_lines, listVars, sectVars,
                       flush_calls>>

\* ------------------------------------------------------------------------
\*  Specifications
\* ------------------------------------------------------------------------
Next ==
    \/ visit_document
    \/ depart_document
    \/ visit_topic
    \/ depart_topic
    \/ visit_section
    \/ depart_section
    \/ \E tag \in HighlightLanguages : visit_highlightlang(tag)
    \/ \E text \in Texts : visit_Text(text)
    \/ \E has_refid \in BOOLEAN : visit_target(has_refid)
    \/ visit_paragraph
    \/ depart_paragraph
    \/ visit_title
    \/ depart_title
    \/ visit_bullet_list
    \/ depart_bullet_list
    \/ visit_enumerated_list
    \/ depart_enumerated_list
    \/ visit_list_item
    \/ depart_list_item
    \/ \E language \in NodeLanguages, classes \in ClassSets :
          visit_literal_block(language, classes)
    \/ depart_literal_block

Spec == Init /\ [][Next]_vars


\* Documents of code blocks, output blocks, language declarations and
\* paragraphs, under one configuration with and without a welcome block.
InitCode ==
    \E w \in BOOLEAN :
        Construct(Some([python3 |-> [kernelspec |-> "ks_python3"],
                        julia   |-> [kernelspec |-> "ks_julia"]]),
                  Some([python3 |-> <<H1, H2>>]), FALSE, w, MaxCodeNodes)

NextCode ==
    \/ visit_document
    \/ depart_document
    \/ \E tag \in HighlightLanguages : visit_highlightlang(tag)
    \/ \E text \in Texts : visit_Text(text)
    \/ visit_paragraph
    \/ depart_paragraph
    \/ \E language \in NodeLanguages, classes \in ClassSets :
          visit_literal_block(language, classes)
    \/ depart_literal_block

SpecCode == InitCode /\ [][NextCode]_vars

\* Documents of nested lists whose items hold text, native code blocks and
\* anchors, under one configuration.
InitLists ==
    Construct(Some([python3 |-> [kernelspec |-> "ks_python3"],
                    julia   |-> [kernelspec |-> "ks_julia"]]),
              None, FALSE, FALSE, MaxListNodes)

NextLists ==
    \/ visit_document
    \/ depart_document
    \/ \E text \in Texts : visit_Text(text)
    \/ visit_target(TRUE)
    \/ visit_bullet_list
    \/ depart_bullet_list
    \/ visit_enumerated_list
    \/ depart_enumerated_list
    \/ visit_list_item
    \/ depart_list_item
    \/ visit_literal_block(NoStr, {})
    \/ depart_literal_block

SpecLists == InitLists /\ [][NextLists]_vars

\* label texts of references
RefTexts == { <<"F", "o", "o", SP, "B", "a", "r">>, <<"a", SP, SP, "b">>,
             <<SP>> }

\* refuri attributes: the strings over a letter, the dot and the hash
UriChars == {"p", ".", "#"}
URIs == UNION { [1..n -> UriChars] : n \in 0..MaxUriLen }

\* Documents of paragraphs and references inside and outside topics, the
\* references without refuri, under one configuration.
InitRefs == Construct(None, None, FALSE, FALSE, MaxRefNodes)

NextRefs ==
    \/ visit_document
    \/ depart_document
    \/ visit_topic
    \/ depart_topic
    \/ visit_paragraph
    \/ depart_paragraph
    \/ visit_reference
    \/ \E refid \in {None, Some(REFID)} : depart_reference(None, FALSE, refid)
    \/ \E text \in RefTexts : visit_Text(text)

SpecRefs == InitRefs /\ [][NextRefs]_vars

\* Documents of paragraphs whose references carry a refuri, under one
\* configuration.
InitLinks == Construct(None, None, FALSE, FALSE, MaxLinkNodes)

NextLinks ==
    \/ visit_document
    \/ depart_document
    \/ visit_paragraph
    \/ depart_paragraph
    \/ visit_reference
    \/ \E u \in URIs, internal \in BOOLEAN, refid \in {None, Some(REFID)} :
          depart_reference(Some(u), internal, refid)
    \/ visit_Text(<<"a">>)

SpecLinks == InitLinks /\ [][NextLinks]_vars

\* pieces of block text: a letter, a space, a line break
StripTexts == { <<"a">>, <<SP>>, <<NL>> }

\* Documents of native code blocks whose text is any sequence of the pieces,
\* under one configuration.
InitStrip == Construct(None, None, FALSE, FALSE, MaxStripNodes)

NextStrip ==
    \/ visit_document
    \/ depart_document
    \/ \E text \in StripTexts : visit_Text(text)
    \/ visit_literal_block(NoStr, {})
    \/ depart_literal_block

SpecStrip == InitStrip /\ [][NextStrip]_vars


\* ------------------------------------------------------------------------
\*  Properties
\* ------------------------------------------------------------------------
\* the heading marker visit_title appends in the current state
Heading ==
    Repeat("#", IF in_topic THEN section_level + 1 ELSE section_level)
    \o <<SP>>

\* the step closes the outermost list of a topic
TopicListCloses(kinds) ==
    handler' \in kinds /\ list_level' = 0 /\ in_topic

ConfigCells == {WelcomeCell, MetadataCell, H1, H2}

OutputRecord ==
    new_output(strip_blank_lines_in_end_of_block(Join(code_lines)))

\* the step leaves an output-capture block (strategy CODE_OUTPUT)
LeavesOutputBlock ==
    handler' = "depart_literal_block" /\ output_cell_type = "CODE_OUTPUT"

\* C2: every code cell carries at most one output; leaving an output-capture
\* block attaches its record to the last cell when that cell is a code cell
\* without output, and otherwise (last cell not code, or already bearing an
\* output) leaves the whole stream unchanged and warns.
C2_OutputAttachment ==
    [][ /\ \A i \in 1..Len(cells') : Len(cells'[i].outputs) <= 1
        /\ (LeavesOutputBlock /\ cells # <<>>)
           => IF Last(cells).cell_type = "code" /\ Last(cells).outputs = <<>>
              THEN cells' = [cells EXCEPT ![Len(cells)].outputs =
                                              <<OutputRecord>>]
              ELSE cells' = cells /\ warnings' = warnings + 1 ]_vars

\* an output with text was discarded and the last code cell bears its one
\* output
C2_Witness ==
    /\ handler = "depart_literal_block"
    /\ output_cell_type = "CODE_OUTPUT"
    /\ \E i \in 1..Len(appended) : appended[i].discarded
    /\ cells # <<>>
    /\ Last(cells).cell_type = "code"
    /\ Len(Last(cells).outputs) = 1

\* C3 as stated: leaving an output-capture block that does not follow a code
\* cell, the empty stream included, raises nothing: one warning, stream
\* unchanged, mode flag back to markdown, traversal goes on.
C3_OrphanOutputAbsorbed ==
    [][ (LeavesOutputBlock
         /\ (cells = <<>> \/ Last(cells).cell_type # "code"))
        => /\ pc' = "walk"
           /\ warnings' = warnings + 1
           /\ cells' = cells
           /\ in_code_block' = FALSE ]_vars

\* x occurs as a contiguous piece of s
Holds(s, x) ==
    \E k \in 0..(Len(s) - Len(x)) : SubSeq(s, k + 1, k + Len(x)) = x

\* C4: a block whose resolved language differs from the normalized kernel
\* language gets the MARKDOWN strategy whatever its classes, and leaving it
\* appends exactly one markdown cell holding the block's text: no code cell,
\* no output attached, earlier cells untouched.
C4_ForeignDemotion ==
    [][ /\ (handler' = "visit_literal_block" /\ nodelang' # translate(lang'))
           => output_cell_type' = "MARKDOWN"
        /\ (handler' = "depart_literal_block" /\ nodelang # translate(lang))
           => /\ pc' = "walk"
              /\ Len(cells') = Len(cells) + 1
              /\ SubSeq(cells', 1, Len(cells)) = cells
              /\ Last(cells').cell_type = "markdown"
              /\ Last(cells').outputs = <<>>
              /\ Holds(Last(cells').source,
                       strip_blank_lines_in_end_of_block(Join(code_lines)))
      ]_vars

\* a foreign-language block with text has been left
C4_Witness ==
    /\ handler = "depart_literal_block"
    /\ nodelang # translate(lang)
    /\ \E i \in 1..Len(code_lines) : ~IsBlank(code_lines[i])
    /\ Last(cells).cell_type = "markdown"


\* the texts of the recorded fragments, in the order they were appended
AllText(frs) == Join([i \in 1..Len(frs) |-> frs[i].text])

\* the same without the fragments of discarded output blocks
KeptText(frs) ==
    Join([i \in 1..Len(frs) |->
             IF frs[i].discarded THEN <<>> ELSE frs[i].text])

\* body of a cell: its source followed by the text of its outputs
CellText(c) ==
    c.source \o Join([i \in 1..Len(c.outputs) |-> c.outputs[i].text])

\* text of the cells the traversal produced, in stream order
StreamText ==
    Join([i \in 1..Len(cells) |->
             IF cells[i] \in ConfigCells THEN <<>> ELSE CellText(cells[i])])

\* the characters that are neither whitespace nor the fence Generate adds
Payload(s) == SelectSeq(s, LAMBDA c : c \notin Whitespace \cup {FENCE})

RECURSIVE IsSubsequence(_, _)
\* x is y with characters left out
IsSubsequence(x, y) ==
    IF x = <<>> THEN TRUE
    ELSE IF y = <<>> THEN FALSE
    ELSE IF Head(x) = Head(y) THEN IsSubsequence(Tail(x), Tail(y))
    ELSE IsSubsequence(x, Tail(y))

\* C5 as stated: once the traversal is complete every appended fragment,
\* fragments of discarded output blocks and whitespace-only buffers included,
\* is in the stream, in order, and nothing is there twice.
C5_FlushCompletenessAsStated ==
    pc = "done"
    => /\ IsSubsequence(AllText(appended), StreamText)
       /\ Payload(StreamText) = Payload(AllText(appended))

\* C5 amended: once the traversal is complete, the non-whitespace characters
\* of the fragments appended to either buffer, those of discarded
\* output-capture blocks excepted, are the non-whitespace characters of the
\* produced cells (sources and attached outputs), each once and in the order
\* appended, and what is left in the markdown buffer is whitespace.
C5_FlushCompleteness ==
    pc = "done"
    => /\ Payload(StreamText) = Payload(KeptText(appended))
       /\ IsBlank(Join(markdown_lines))

\* a finished traversal that kept a markdown fragment, discarded an output
\* with text and dropped whitespace
C5_Witness ==
    /\ pc = "done"
    /\ \E i \in 1..Len(appended) :
          appended[i].discarded /\ ~IsBlank(appended[i].text)
    /\ \E i \in 1..Len(appended) :
          /\ ~appended[i].discarded
          /\ appended[i].buffer = "markdown"
          /\ ~IsBlank(appended[i].text)
    /\ ~IsSubsequence(AllText(appended), StreamText)

\* C6 as stated: right after a flush the markdown buffer is empty whatever
\* it held (after visit_title: it holds the new heading marker only).
C6_BufferEmptyAfterFlush ==
    [][ (flush_calls' # flush_calls)
        => markdown_lines' = IF handler' = "visit_title"
                             THEN <<Heading>>
                             ELSE <<>> ]_vars

\* the step is document exit with a kernel table configured
ExitWithTable == handler' = "depart_document" /\ jupyter_kernels # None

\* the table maps the language to a record that has a kernelspec
HasKernel(lng) ==
    /\ lng \in DOMAIN jupyter_kernels[1]
    /\ "kernelspec" \in DOMAIN jupyter_kernels[1][lng]

\* C7 as stated: at document exit, a table without kernel mapping for the
\* resolved language gives a warning, no kernel metadata, no exception; a
\* mapping with a kernel record is written to the notebook metadata.
C7_KernelMetadata ==
    [][ ExitWithTable
        => IF HasKernel(lang')
           THEN pc' = "done"
                /\ kernelspec' = jupyter_kernels[1][lang'].kernelspec
           ELSE pc' = "done"
                /\ kernelspec' = kernelspec
                /\ warnings' > warnings ]_vars

\* the header cells configured for the resolved language
ConfiguredHeaders ==
    IF jupyter_headers # None /\ lang \in DOMAIN jupyter_headers[1]
    THEN jupyter_headers[1][lang]
    ELSE <<>>

\* C8 as stated: in the final stream the header cells are contiguous in
\* configured order, directly after the metadata cell when write_metadata is
\* set, from position zero otherwise, and with write_metadata the metadata
\* cell is the first cell.
C8_HeaderPlacement ==
    pc = "done"
    => LET hs == ConfiguredHeaders
       IN  IF jupyter_write_metadata
           THEN /\ cells[1] = MetadataCell
                /\ SubSeq(cells, 2, 1 + Len(hs)) = hs
           ELSE SubSeq(cells, 1, Len(hs)) = hs


\* what re-indenting makes of an item's content: an indent after each line
\* break, a line break at the very end kept bare
Reindented(content, indent) ==
    IF content # <<>> /\ Last(content) = NL
    THEN Replace(Front(content), indent) \o <<NL>>
    ELSE Replace(content, indent)

\* C9 as stated: closing a list item leaves the emitted cells and every
\* buffer fragment before the item's start mark unchanged, and within the
\* item's range only inserts the indent after each internal line break,
\* keeping a trailing line break bare.
C9_ReindentLocality ==
    [][ handler' = "depart_list_item"
        => LET mark == Last(list_item_starts)
               n == Len(markdown_lines)
               indent == Repeat(indent_char, Last(indents))
           IN  /\ cells' = cells
               /\ \A i \in 1..n :
                     i <= mark => /\ i <= Len(markdown_lines')
                                  /\ markdown_lines'[i] = markdown_lines[i]
               /\ Join(SubSeq(markdown_lines', mark + 1,
                              Len(markdown_lines')))
                  = Reindented(Join(SubSeq(markdown_lines, mark + 1, n)),
                               indent) ]_vars

\* the buffer of a two-level bulleted list, outer item "A", inner item
\* holding the given content
TwoLevel(inner) == << <<"-", SP>>, <<"a">>, <<"-", SP>>, inner >>

\* the inner item of that list, content "B\nC", is about to close
ClosesInnerItem ==
    /\ handler' = "depart_list_item"
    /\ bullets = << <<"-">>, <<"-">> >>
    /\ list_item_starts = <<1, 3>>
    /\ markdown_lines = TwoLevel(<<"b", NL, "c">>)

\* C10 as stated: when the inner item closes its content becomes "B\n",
\* four spaces, "C", and the outer item's "A" is unchanged.
C10_FourSpaceIndent ==
    [][ ClosesInnerItem
        => markdown_lines' = TwoLevel(<<"b", NL, SP, SP, SP, SP, "c">>)
      ]_vars

\* C10 amended: when the inner item closes its content becomes "B\n", two
\* spaces (the length of the marker "-" plus one), "C", and the outer item's
\* "A" is unchanged.
C10_MarkerWidthIndent ==
    [][ ClosesInnerItem
        => markdown_lines' = TwoLevel(<<"b", NL, SP, SP, "c">>) ]_vars

\* the inner item has just been closed
C10_Witness ==
    /\ handler = "depart_list_item"
    /\ bullets = << <<"-">>, <<"-">> >>
    /\ list_item_starts = <<1>>
    /\ markdown_lines = TwoLevel(<<"b", NL, SP, SP, "c">>)

\* the buffer add_markdown_cell finds when the step flushes
FlushedBuffer ==
    IF handler' = "depart_bullet_list"
    THEN Append(markdown_lines, sep_paras)
    ELSE markdown_lines

\* the cells of a stream that the traversal produced
BodyCells(cs) == SelectSeq(cs, LAMBDA c : c \notin ConfigCells)

\* C11: a markdown flush whose joined buffer is empty or whitespace-only
\* after trailing-blank stripping produces no cell: the stream is the same
\* after the flush as before (at document end: no cell is added besides the
\* configured header cells, which are no product of the flush).
C11_EmptyCellSuppression ==
    [][ (flush_calls' # flush_calls
         /\ IsBlank(strip_blank_lines_in_end_of_block(Join(FlushedBuffer))))
        => IF handler' = "depart_document"
           THEN /\ BodyCells(cells') = BodyCells(cells)
                /\ \A i \in 1..Len(cells') :
                      cells'[i].cell_type = "markdown"
                      => ~IsBlank(cells'[i].source)
           ELSE cells' = cells ]_vars

\* a whitespace-only buffer has gone through the document-end flush
C11_Witness ==
    /\ pc = "done"
    /\ markdown_lines # <<>>
    /\ IsBlank(Join(markdown_lines))
    /\ BodyCells(cells) # <<>>

C13_UndeclaredLanguageWarns ==
    [][ /\ (handler' = "depart_document" /\ ~declared)
           => /\ warnings' = warnings + 1
                   + (IF jupyter_headers # None
                         /\ default_lang \notin DOMAIN jupyter_headers[1]
                      THEN 1 ELSE 0)
                   + (IF kernel_outcome(default_lang) = "warn" THEN 1 ELSE 0)
              /\ lang' = default_lang
        /\ pc' = "done" => lang' # NoStr
      ]_vars

IsPrefix(s, t) == Len(s) <= Len(t) /\ SubSeq(t, 1, Len(s)) = s

\* C14 as stated: from document enter through document exit every step
\* leaves the stream it found as a prefix of the stream it leaves.
C14_AppendOnlyAsStated ==
    [][ (pc = "init" \/ pc = "walk") => IsPrefix(cells, cells') ]_vars

\* the header cells document exit inserts for language lng
HeadersFor(lng) ==
    IF jupyter_headers # None /\ lng \in DOMAIN jupyter_headers[1]
    THEN jupyter_headers[1][lng]
    ELSE <<>>

\* t is s with the block hs placed at index pos (at the end if s is shorter)
PlacedAt(s, hs, pos, t) ==
    LET p == IF pos <= Len(s) THEN pos ELSE Len(s)
    IN  t = SubSeq(s, 1, p) \o hs \o SubSeq(s, p + 1, Len(s))

\* C14: a step other than document exit and the leaving of an output block
\* keeps the stream as a prefix and appends at most one cell; leaving an
\* output block keeps the stream or adds one record to the outputs of the
\* last cell and changes nothing else; document exit appends at most one
\* markdown cell and then places the header cells of the language, in their
\* configured order, as one block at index 1 (metadata written) or 0.
C14_StreamGrowth ==
    [][ (pc = "init" \/ pc = "walk") =>
        IF handler' = "depart_document"
        THEN \E mid \in {cells} \cup
                        {Append(cells, new_markdown_cell(
                            strip_blank_lines_in_end_of_block(
                                Join(markdown_lines))))} :
                PlacedAt(mid, HeadersFor(lang'),
                         IF jupyter_write_metadata THEN 1 ELSE 0, cells')
        ELSE IF LeavesOutputBlock
        THEN \/ cells' = cells
             \/ /\ cells # <<>>
                /\ Len(cells') = Len(cells)
                /\ Front(cells') = Front(cells)
                /\ Last(cells') = [Last(cells) EXCEPT !.outputs =
                                       Append(@, OutputRecord)]
        ELSE /\ IsPrefix(cells, cells')
             /\ Len(cells') <= Len(cells) + 1 ]_vars

\* a finished traversal whose headers went in front of a body cell and
\* whose code cell received an output
C14_Witness ==
    /\ pc = "done"
    /\ HeadersFor(lang) # <<>>
    /\ \E i \in 1..Len(cells) :
          /\ cells[i].outputs # <<>>
          /\ \E j \in 1..(i - 1) : cells[j] = HeadersFor(lang)[1]

\* the label of the open reference: all that was appended since its mark
Label ==
    Join(SubSeq(markdown_lines, reference_text_start + 1,
                Len(markdown_lines)))

RECURSIVE SkipWhitespace(_)
SkipWhitespace(s) ==
    IF s # <<>> /\ Head(s) \in Whitespace THEN SkipWhitespace(Tail(s)) ELSE s

RECURSIVE Collapse(_)
\* s with each run of whitespace collapsed to a single hyphen
Collapse(s) ==
    IF s = <<>> THEN <<>>
    ELSE IF Head(s) \in Whitespace
    THEN <<"-">> \o Collapse(SkipWhitespace(s))
    ELSE <<Head(s)>> \o Collapse(Tail(s))

\* the step leaves a reference inside a topic
LeavesTopicReference == handler' = "depart_reference" /\ in_topic

\* C15 as stated: leaving a reference inside a topic appends "](#S)", S
\* being the label with each run of whitespace collapsed to one hyphen.
C15_TopicReferenceAsStated ==
    [][ LeavesTopicReference
        => markdown_lines' =
             Append(markdown_lines,
                    <<"]", "(", "#">> \o Collapse(Label) \o <<")">>) ]_vars

\* s from its first to its last non-whitespace character, every whitespace
\* character in between replaced by a hyphen
Slug(s) ==
    LET nw == {i \in 1..Len(s) : s[i] \notin Whitespace}
    IN  IF nw = {} THEN <<>>
        ELSE LET a == CHOOSE i \in nw : \A j \in nw : i <= j
                 b == CHOOSE i \in nw : \A j \in nw : j <= i
             IN  [i \in 1..(b - a + 1) |->
                    IF s[a + i - 1] \in Whitespace THEN "-"
                    ELSE s[a + i - 1]]

FooBar == <<"F", "o", "o", SP, "B", "a", "r">>

\* C15: leaving a reference inside a topic appends "](#S)" and changes no
\* fragment already in the buffer, S being the label without its leading and
\* trailing whitespace and with every other whitespace character replaced by
\* one hyphen; the label "Foo Bar" gives "[Foo Bar](#Foo-Bar)".
C15_TopicReference ==
    [][ LeavesTopicReference
        => /\ markdown_lines' =
                Append(markdown_lines,
                       <<"]", "(", "#">> \o Slug(Label) \o <<")">>)
           /\ pc' = "walk"
           /\ Label = FooBar
              => Join(SubSeq(markdown_lines', reference_text_start,
                             Len(markdown_lines')))
                 = <<"[">> \o FooBar
                   \o <<"]", "(", "#", "F", "o", "o", "-", "B", "a", "r",
                        ")">> ]_vars

\* a label with a run of two spaces inside and a space at its end was
\* turned into a link inside a topic
C15_Witness ==
    /\ handler = "depart_reference"
    /\ in_topic
    /\ Len(markdown_lines) >= 4
    /\ Last(markdown_lines) = <<"]", "(", "#", "a", "-", "-", "b", ")">>
    /\ markdown_lines[Len(markdown_lines) - 1] = <<SP>>
    /\ markdown_lines[Len(markdown_lines) - 3] = <<"[">>

\* the link target placed between "](" and ")" by the step
LinkTarget ==
    LET f == Last(markdown_lines') IN SubSeq(f, 3, Len(f) - 1)

HasChar(u, c) == \E i \in 1..Len(u) : u[i] = c

\* u with e placed before its first hash, at the end if it has none
ExtensionPlaced(u, e) ==
    IF HasChar(u, "#")
    THEN LET k == CHOOSE i \in 1..Len(u) :
                     u[i] = "#" /\ \A j \in 1..(i - 1) : u[j] # "#"
         IN  SubSeq(u, 1, k - 1) \o e \o SubSeq(u, k, Len(u))
    ELSE u \o e

\* C16: for an internal reference with refuri u outside a topic the link
\* target is add_extension_to_inline_link(u, default_ext): u itself when u
\* holds a dot, otherwise u with the extension before its '#fragment', and
\* exactly u followed by the extension when u has no hash; applying the
\* function to the result returns the result.
C16_ExtensionAppend ==
    [][ \A u \in URIs :
          (\E refid \in {None, Some(REFID)} :
              depart_reference(Some(u), TRUE, refid))
          => /\ LinkTarget = IF HasChar(u, ".") THEN u
                             ELSE ExtensionPlaced(u, default_ext)
             /\ add_extension_to_inline_link(LinkTarget, default_ext)
                = LinkTarget ]_vars

\* the innermost open node is a literal block
InsideCodeBlock == open # <<>> /\ Last(open) = "literal_block"

\* C17: a visited text is appended to the code buffer and to nothing else
\* when in_code_block is set, to the markdown buffer and to nothing else
\* when it is not; in_code_block is set exactly while a literal block is the
\* innermost open node.
C17_TextRouting ==
    [][ /\ handler' = "visit_Text"
           => \E text \in Texts :
                 IF in_code_block
                 THEN /\ code_lines' = Append(code_lines, text)
                      /\ markdown_lines' = markdown_lines
                 ELSE /\ markdown_lines' = Append(markdown_lines, text)
                      /\ code_lines' = code_lines
        /\ in_code_block <=> InsideCodeBlock
        /\ in_code_block' <=> InsideCodeBlock' ]_vars

\* a text went to the code buffer after an earlier text went to the
\* markdown buffer
C17_Witness ==
    /\ handler = "visit_Text"
    /\ in_code_block
    /\ code_lines # <<>>
    /\ \E i \in 1..Len(appended) : appended[i].buffer = "markdown"

\* the text after the last line break of s
LastLine(s) ==
    LET nls == {i \in 1..Len(s) : s[i] = NL}
        k == IF nls = {} THEN 0
             ELSE CHOOSE i \in nls : \A j \in nls : j <= i
    IN  SubSeq(s, k + 1, Len(s))

\* C18: the text r that leaving a code block stores, which is
\* strip_blank_lines_in_end_of_block of the block's text s, is a fixed point
\* of the function; r is s when the last line of s is not blank; r is empty
\* when every line of s is blank, and the step raises nothing.
C18_StripIdempotent ==
    [][ handler' = "depart_literal_block"
        => LET line_text == Join(code_lines)
               r == Last(cells').source
           IN  /\ pc' = "walk"
               /\ Len(cells') = Len(cells) + 1
               /\ strip_blank_lines_in_end_of_block(r) = r
               /\ ~IsBlank(LastLine(line_text)) => r = line_text
               /\ IsBlank(line_text) => r = <<>> ]_vars

\* a block that ended in two blank lines was stored without them
C18_Witness ==
    /\ handler = "depart_literal_block"
    /\ Join(code_lines) = <<"a", NL, SP, NL>>
    /\ Last(cells).source = <<"a">>

\* C19: leaving a list of either kind pops its bullet and its indent and
\* lowers the depth by one; when the depth becomes zero the paragraph
\* separator is appended and, inside a topic, add_markdown_cell is called on
\* the buffer so extended; at a depth above zero the buffer and the stream
\* stay as they are and nothing is flushed.
C19_ListExit ==
    [][ handler' \in {"depart_bullet_list", "depart_enumerated_list"}
        => /\ bullets' = Front(bullets)
           /\ indents' = Front(indents)
           /\ list_level' = list_level - 1
           /\ IF list_level' = 0
              THEN LET md == Append(markdown_lines, sep_paras)
                       flush == add_markdown_cell(md, cells)
                   IN  IF in_topic
                       THEN /\ flush_calls' = flush_calls + 1
                            /\ markdown_lines' = flush.markdown_lines
                            /\ cells' = flush.cells
                       ELSE /\ flush_calls' = flush_calls
                            /\ markdown_lines' = md
                            /\ cells' = cells
              ELSE /\ flush_calls' = flush_calls
                   /\ markdown_lines' = markdown_lines
                   /\ cells' = cells ]_vars

\* C20: every start mark of an open list item is at most the length of the
\* markdown buffer, and a list item is left with a buffer that is not empty
\* and whose last fragment is not empty, so that the step raises nothing.
C20_MarksWithinBuffer ==
    [][ /\ \A i \in 1..Len(list_item_starts') :
              list_item_starts'[i] <= Len(markdown_lines')
        /\ handler' = "depart_list_item"
           => /\ markdown_lines # <<>>
              /\ Last(markdown_lines) # <<>>
              /\ pc' = "walk" ]_vars

\* the text of a cell without the fence lines Generate puts around a block
\* emitted as markdown
Unfenced(c) ==
    IF c.source # <<>> /\ Head(c.source) = FENCE
    THEN SubSeq(c.source, 3, Len(c.source) - 2)
    ELSE c.source

\* text of the body cells, outputs included, in stream order
BodyText ==
    Join([i \in 1..Len(cells) |->
             IF cells[i] \in ConfigCells THEN <<>>
             ELSE Unfenced(cells[i])
                  \o Join([j \in 1..Len(cells[i].outputs) |->
                              cells[i].outputs[j].text])])

\* C21: the body cells follow document order across code blocks: in every
\* state the text of the body cells is the text of the fragments visited so
\* far (those of discarded output blocks excepted) in the order they were
\* visited, with characters left out where a buffer was dropped, stripped or
\* not yet flushed; no fragment appended before a code block stands after
\* the block's text and none visited after it stands before.
C21_DocumentOrder ==
    IsSubsequence(BodyText, KeptText(appended))

====
